---- MODULE Spec2Model ----
(***************************************************************************)
(* Model of the rumah123 extraction engine (src/src/extract.py):           *)
(*   - RateLimiter: the adaptive backoff state machine,                    *)
(*   - clean_badge_text / parse_listing_card: the card parser,             *)
(*   - validate_input_params / extract_data: the page loop.                *)
(*                                                                         *)
(* Durations are Python floats in the source.  They are modelled as exact  *)
(* positive rationals of the form 2^a * 3^b * 5^c * 7^d, written as the    *)
(* exponent tuple <<a, b, c, d>>: every value the limiter can hold is a    *)
(* product of 1.0, 600.0, 1.5, 0.9, 0.7 and 0.5, so the representation is  *)
(* closed under the limiter's arithmetic and canonical (equal values have  *)
(* equal tuples).  Comparisons are exact: they compare the numerator and   *)
(* the denominator of the quotient as arbitrary-precision naturals.        *)
(***************************************************************************)
EXTENDS Integers, Sequences, FiniteSets, TLC

VARIABLES
    limiter,        \* the RateLimiter object (fields of extract.py:14-19)
    last_wait,      \* the time.sleep() of the limiter call in progress or just made
    ncalls,         \* number of limiter calls made so far (bounded run)
    streak_base,    \* base_sleep_time when consecutive_successes was last 0
    badge_text,     \* clean_badge_text: the badge's text (a sequence of characters)
    features,       \* clean_badge_text: [done, value] its returned list
    listing,        \* parse_listing_card: the listing fragment given to it
    cards,          \* parse_listing_card: [state, value] its outcome
    pc,             \* extract_data: where the call is
    args,           \* extract_data: ads_type, property_type, num_pages
    page_iter,      \* the next value of the iterator of range(1, num_pages + 1)
    page_num,       \* the loop variable
    all_data,       \* the records appended so far
    provenance,     \* for each record of all_data, the page and card it came from
    response,       \* the response being processed: [status, listing_cards]
    card_i,         \* position of the card loop in response.listing_cards
    requests,       \* the session.get calls made so far: [page, outcome, listing_cards]
    handler_calls,  \* how often each outcome handler of the limiter was called
    interrupted,    \* "no", or where the KeyboardInterrupt hit
    price_text,     \* clean_price_column: the raw price_rp cell (characters, or None)
    price_rp,       \* clean_price_column: [stage, cell] of the cell
    load_args,      \* load_to_postgres: df and batch_size
    load_st,        \* load_to_postgres: [pc, i, failed_at, inserted] of the call
    conn,           \* the tables as the open transaction sees them
    db,             \* the tables as committed in the database
    db_before,      \* the committed tables when load_to_postgres was called
    task_state,     \* DAG run: the state of each task instance
    tries,          \* DAG run: attempts made by each task
    xcom,           \* DAG run: the return value stored for each task
    files,          \* the paths that exist on disk
    written         \* the paths this DAG run has written

limvars == <<limiter, last_wait, ncalls, streak_base>>
badgevars == <<badge_text, features>>
parsevars == <<listing, cards>>
extractvars == <<pc, args, page_iter, page_num, all_data, provenance, response,
                 card_i, requests, handler_calls, interrupted>>
pricevars == <<price_text, price_rp>>
loadvars == <<load_args, load_st, conn, db, db_before>>
dagvars == <<task_state, tries, xcom, files, written>>

(***************************************************************************)
(* Bounds of the model.                                                    *)
(***************************************************************************)
MaxCalls == 18      \* limiter calls explored from a fresh RateLimiter
MaxBadgeLen == 4    \* length of the enumerated badge texts
MaxSpans == 3       \* number of <span> elements of an enumerated fragment
MaxPages == 3       \* largest num_pages extract_data is called with
MaxCards == 2       \* largest number of listing cards of a page body

(***************************************************************************)
(* Arbitrary-precision naturals: little-endian sequences of base-10000     *)
(* limbs (TLC integers are 32-bit).                                        *)
(***************************************************************************)
RECURSIVE BigMulSmall(_, _, _)
BigMulSmall(x, k, c) ==
    IF x = <<>>
    THEN IF c = 0 THEN <<>> ELSE <<c>>
    ELSE LET t == Head(x) * k + c
         IN  <<t % 10000>> \o BigMulSmall(Tail(x), k, t \div 10000)

RECURSIVE BigPowMul(_, _, _)
BigPowMul(x, p, e) ==
    IF e <= 0 THEN x ELSE BigPowMul(BigMulSmall(x, p, 0), p, e - 1)

RECURSIVE BigLessFrom(_, _, _)
BigLessFrom(x, y, i) ==
    IF i = 0 THEN FALSE
    ELSE IF x[i] # y[i] THEN x[i] < y[i]
    ELSE BigLessFrom(x, y, i - 1)

BigLess(x, y) ==
    IF Len(x) # Len(y) THEN Len(x) < Len(y) ELSE BigLessFrom(x, y, Len(x))

(***************************************************************************)
(* Float values as exponent tuples over the primes 2, 3, 5, 7.             *)
(***************************************************************************)
RMul(a, b) == <<a[1] + b[1], a[2] + b[2], a[3] + b[3], a[4] + b[4]>>
RDiv(a, b) == <<a[1] - b[1], a[2] - b[2], a[3] - b[3], a[4] - b[4]>>
RNum(a) == BigPowMul(BigPowMul(BigPowMul(BigPowMul(<<1>>, 2, a[1]), 3, a[2]), 5, a[3]), 7, a[4])
RDen(a) == RNum(<<-a[1], -a[2], -a[3], -a[4]>>)
\* a < b  iff  a/b < 1  iff  numerator(a/b) < denominator(a/b)
RLess(a, b) == BigLess(RNum(RDiv(a, b)), RDen(RDiv(a, b)))
RLeq(a, b) == a = b \/ RLess(a, b)
RMax(a, b) == IF RLess(a, b) THEN b ELSE a      \* Python max(a, b)
RMin(a, b) == IF RLess(b, a) THEN b ELSE a      \* Python min(a, b)

R1_0 == <<0, 0, 0, 0>>        \* 1.0
R600 == <<3, 1, 2, 0>>        \* 600.0 = 2^3 * 3 * 5^2
R1_5 == <<-1, 1, 0, 0>>       \* 1.5  = 3/2
R0_9 == <<-1, 2, -1, 0>>      \* 0.9  = 9/10
R0_7 == <<-1, 0, -1, 1>>      \* 0.7  = 7/10
R0_5 == <<-1, 0, 0, 0>>       \* 0.5  = 1/2
R0_8 == <<2, 0, -1, 0>>       \* 0.8  = 4/5
R1_2 == <<1, 1, -1, 0>>       \* 1.2  = 6/5
R1_25 == <<-2, 0, 1, 0>>      \* 1.25 = 5/4

\* random.uniform(0.8, 1.2): sample points of the interval, both ends included
SleepJitter == {R0_8, R1_0, R1_2}
\* random.uniform(1.0, 1.5)
BackoffJitter == {R1_0, R1_25, R1_5}

(***************************************************************************)
(* RateLimiter                                                             *)
(***************************************************************************)
\* RateLimiter() as extract_data constructs it: the default arguments
NewRateLimiter ==
    [ base_sleep_time       |-> R1_0,
      min_sleep_time        |-> R1_0,
      max_sleep_time        |-> R600,
      consecutive_429s      |-> 0,
      consecutive_successes |-> 0 ]


\* variant: the pause is stretched like the wait of an error backoff
sleep_time_Stretched(l, jitter) == RMul(RMul(l.base_sleep_time, jitter), R1_5)

\* sleep(): changes no field; the time slept is base_sleep_time * jitter
sleep_time(l, jitter) == RMul(l.base_sleep_time, jitter)


\* variant: the thresholds are compared with > instead of >=
reduction_factor_Late(successes) ==
    IF successes > 5 THEN R0_5
    ELSE IF successes > 3 THEN R0_7
    ELSE R0_9

reduction_factor(successes) ==
    IF successes >= 5 THEN R0_5
    ELSE IF successes >= 3 THEN R0_7
    ELSE R0_9


\* variant: the failure counter is not reset
handle_success_KeepsFailures(l) ==
    LET successes == l.consecutive_successes + 1
        new_sleep_time == RMax(l.min_sleep_time,
                               RMul(l.base_sleep_time, reduction_factor(successes)))
    IN  [ l EXCEPT !.consecutive_successes = successes,
                   !.base_sleep_time =
                       IF RLess(new_sleep_time, l.base_sleep_time)
                       THEN new_sleep_time ELSE @ ]

\* variant: the factor is picked before the counter is incremented
handle_success_StaleCount(l) ==
    LET successes == l.consecutive_successes + 1
        new_sleep_time == RMax(l.min_sleep_time,
                               RMul(l.base_sleep_time,
                                    reduction_factor(l.consecutive_successes)))
    IN  [ l EXCEPT !.consecutive_successes = successes,
                   !.consecutive_429s = 0,
                   !.base_sleep_time =
                       IF RLess(new_sleep_time, l.base_sleep_time)
                       THEN new_sleep_time ELSE @ ]

handle_success(l) ==
    LET successes == l.consecutive_successes + 1
        new_sleep_time == RMax(l.min_sleep_time,
                               RMul(l.base_sleep_time, reduction_factor(successes)))
    IN  [ l EXCEPT !.consecutive_successes = successes,
                   !.consecutive_429s = 0,
                   !.base_sleep_time =
                       IF RLess(new_sleep_time, l.base_sleep_time)
                       THEN new_sleep_time ELSE @ ]


\* variant: the new base_sleep_time is not capped by max_sleep_time
handle_rate_limit_NoCap(l) ==
    [ l EXCEPT !.consecutive_successes = 0,
               !.consecutive_429s = @ + 1,
               !.base_sleep_time = RMul(@, R1_5) ]

\* the field updates of handle_rate_limit (before its time.sleep)
handle_rate_limit(l) ==
    [ l EXCEPT !.consecutive_successes = 0,
               !.consecutive_429s = @ + 1,
               !.base_sleep_time = RMin(l.max_sleep_time, RMul(@, R1_5)) ]


\* variant: the backoff is computed from base_sleep_time before its update
backoff_time_Stale(l, jitter) == RMul(l.base_sleep_time, jitter)

\* backoff_time = self.base_sleep_time * random.uniform(1.0, 1.5), read after the update
backoff_time(l, jitter) == RMul(handle_rate_limit(l).base_sleep_time, jitter)


\* variant: an error backs off like a rate limit and keeps the longer pause
handle_other_error_Scales(l) ==
    [ l EXCEPT !.consecutive_successes = 0,
               !.base_sleep_time = RMin(l.max_sleep_time, RMul(@, R1_5)) ]

handle_other_error(l) == [ l EXCEPT !.consecutive_successes = 0 ]

\* time.sleep(self.base_sleep_time * 1.5)
other_error_time(l) == RMul(l.base_sleep_time, R1_5)

NoWait == [by |-> "none", dur |-> R1_0, base_before |-> R1_0]

StreakBase(l, old) ==
    IF l.consecutive_successes = 0 THEN l.base_sleep_time ELSE old

(***************************************************************************)
(* clean_badge_text: texts are sequences of one-character strings.         *)
(***************************************************************************)
Lower == {"a","b","c","d","e","f","g","h","i","j","k","l","m",
          "n","o","p","q","r","s","t","u","v","w","x","y","z"}
Upper == {"A","B","C","D","E","F","G","H","I","J","K","L","M",
          "N","O","P","Q","R","S","T","U","V","W","X","Y","Z"}
Digit == {"0","1","2","3","4","5","6","7","8","9"}
Letter == Lower \cup Upper            \* [A-Za-z]
Word == Letter \cup Digit \cup {"_"}  \* \w
Space == {" "}                        \* \s

\* re.sub(r'(?<=[a-z])([A-Z])', r', \1', text)
RECURSIVE SubLowerUpper(_, _)
SubLowerUpper(s, i) ==
    IF i > Len(s) THEN <<>>
    ELSE (IF i > 1 /\ s[i-1] \in Lower /\ s[i] \in Upper
          THEN <<",", " ", s[i]>>
          ELSE <<s[i]>>) \o SubLowerUpper(s, i + 1)

\* the last index of the run [A-Z]* that starts at i (i - 1 when s[i] is no capital)
RECURSIVE UpperRunEnd(_, _)
UpperRunEnd(s, i) ==
    IF i <= Len(s) /\ s[i] \in Upper THEN UpperRunEnd(s, i + 1) ELSE i - 1

\* re.sub(r'([A-Z]{2,})([A-Z][a-z])', r'\1, \2', text): scanning from the left,
\* the greedy group 1 is the run of capitals but its last one, which must be
\* followed by a lower-case letter
RECURSIVE SubAcronym(_, _)
SubAcronym(s, i) ==
    IF i > Len(s) THEN <<>>
    ELSE LET e == UpperRunEnd(s, i)
         IN  IF e >= i + 2 /\ e + 1 <= Len(s) /\ s[e+1] \in Lower
             THEN SubSeq(s, i, e - 1) \o <<",", " ", s[e], s[e+1]>> \o SubAcronym(s, e + 2)
             ELSE <<s[i]>> \o SubAcronym(s, i + 1)

\* variant: no separator is inserted after a punctuation character
SubPunct_Off(s, i) == s

\* re.sub(r'([^\w\s])([A-Za-z])', r'\1, \2', text)
RECURSIVE SubPunct(_, _)

SubPunct(s, i) ==
    IF i > Len(s) THEN <<>>
    ELSE IF s[i] \notin (Word \cup Space) /\ i + 1 <= Len(s) /\ s[i+1] \in Letter
         THEN <<s[i], ",", " ", s[i+1]>> \o SubPunct(s, i + 2)
         ELSE <<s[i]>> \o SubPunct(s, i + 1)

\* the first index at or after i that holds no whitespace (Len(s) + 1 if none)
RECURSIVE SkipSpace(_, _)
SkipSpace(s, i) ==
    IF i <= Len(s) /\ s[i] \in Space THEN SkipSpace(s, i + 1) ELSE i

\* re.sub(r'\s*,\s*', ', ', text)
RECURSIVE SubComma(_, _)
SubComma(s, i) ==
    IF i > Len(s) THEN <<>>
    ELSE LET j == SkipSpace(s, i)
         IN  IF j <= Len(s) /\ s[j] = ","
             THEN <<",", " ">> \o SubComma(s, SkipSpace(s, j + 1))
             ELSE <<s[i]>> \o SubComma(s, i + 1)

\* text.strip(', '): drops leading and trailing commas and blanks
RECURSIVE Strip(_)
Strip(s) ==
    IF s = <<>> THEN s
    ELSE IF Head(s) \in {",", " "} THEN Strip(Tail(s))
    ELSE IF s[Len(s)] \in {",", " "} THEN Strip(SubSeq(s, 1, Len(s) - 1))
    ELSE s

\* text.split(', '): `cur` is the token being read
RECURSIVE Split(_, _, _)
Split(s, i, cur) ==
    IF i > Len(s) THEN <<cur>>
    ELSE IF s[i] = "," /\ i + 1 <= Len(s) /\ s[i+1] = " "
         THEN <<cur>> \o Split(s, i + 2, <<>>)
         ELSE Split(s, i + 1, Append(cur, s[i]))

\* a badge tag is [present, text]; text is what get_text(strip=True) gives
NoBadge == [present |-> FALSE, text |-> <<>>]
Badge(text) == [present |-> TRUE, text |-> text]

clean_badge_text(badge_tag) ==
    IF ~badge_tag.present THEN <<>>
    ELSE LET t1 == SubLowerUpper(badge_tag.text, 1)
             t2 == SubAcronym(t1, 1)
             t3 == SubPunct(t2, 1)
             t4 == Strip(SubComma(t3, 1))
             found == Split(t4, 1, <<>>)
         IN  IF found # <<>> THEN Tail(found) ELSE <<>>

(***************************************************************************)
(* parse_listing_card.  A listing fragment is                              *)
(*   anchor  : "none" | "nohref" | "href"  the first <a> that is not a     *)
(*             quick-label-badge, and whether it has an href attribute     *)
(*   heading : whether there is an <h2>                                    *)
(*   price   : "none" | "nostrong" | "strong"  the price <div> and the     *)
(*             <strong> inside it                                          *)
(*   spans   : the <span> elements in document order, each with            *)
(*             attribute_text (its class) and admin (its text contains a   *)
(*             name of admin_list)                                         *)
(*   sizes   : the number of <div class="attribute-info">                  *)
(*   badge   : the header-badge <div>                                      *)
(* Texts are strings; Python's None is the string "None".                  *)
(***************************************************************************)
None == "None"
SpanText(i) == "span" \o ToString(i)
SizeText(i) == "size" \o ToString(i)

\* listing.find_all('span', class_='attribute-text'): indices, in order
RECURSIVE AttributeTags(_, _)
AttributeTags(spans, i) ==
    IF i > Len(spans) THEN <<>>
    ELSE (IF spans[i].attribute_text THEN <<i>> ELSE <<>>) \o AttributeTags(spans, i + 1)

\* next((text of tag for tag in location_tag if any(admin in text ...)), '')
RECURSIVE Locations(_, _)
Locations(spans, i) ==
    IF i > Len(spans) THEN ""
    ELSE IF spans[i].admin THEN SpanText(i)
    ELSE Locations(spans, i + 1)

\* link_tag['href'] raises KeyError when the anchor has no href attribute
LinkRaises(l) == l.anchor = "nohref"

LinkField(l) == IF l.anchor # "none" THEN "rumah123.com" \o "/href" ELSE None

CardRecord(l) ==
    LET attribute_tags == AttributeTags(l.spans, 1)
    IN  [ link          |-> LinkField(l),
          name          |-> IF l.heading THEN "h2" ELSE None,
          price_rp      |-> IF l.price # "none" /\ l.price = "strong" THEN "strong" ELSE None,
          location      |-> Locations(l.spans, 1),
          lot_size      |-> IF l.sizes > 0 THEN SizeText(1) ELSE None,
          building_size |-> IF l.sizes > 1 THEN SizeText(2) ELSE None,
          n_bedroom     |-> IF Len(attribute_tags) > 0 THEN SpanText(attribute_tags[1]) ELSE None,
          n_bathroom    |-> IF Len(attribute_tags) > 1 THEN SpanText(attribute_tags[2]) ELSE None,
          n_carport     |-> IF Len(attribute_tags) > 2 THEN SpanText(attribute_tags[3]) ELSE None,
          additional_features |-> clean_badge_text(l.badge) ]

NoCards == [state |-> "none", value |-> <<>>]

\* variant: an anchor without href gives a record instead of a KeyError
parse_listing_card_Total(l) == [state |-> "returned", value |-> <<CardRecord(l)>>]

\* the outcome of a call: the returned dict, or the exception raised
parse_listing_card(l) ==
    IF LinkRaises(l)
    THEN [state |-> "raised", value |-> <<"KeyError">>]
    ELSE [state |-> "returned", value |-> <<CardRecord(l)>>]

(***************************************************************************)
(* SpecBadge: clean_badge_text applied to enumerated badge texts.          *)
(***************************************************************************)
ExampleBadge ==
    <<"R","u","m","a","h","B","a","r","u","B","a","g","u","s","!","M","u","r","a","h">>

BadgeAlphabet == {"a", "B", "!", ",", " "}

BadgeTexts ==
    {ExampleBadge} \cup UNION { [1..n -> BadgeAlphabet] : n \in 0..MaxBadgeLen }

NoFeatures == [done |-> FALSE, value |-> <<>>]

BadgeIdle ==
    /\ badge_text = <<>>
    /\ features = NoFeatures

CleanBadge ==
    /\ ~features.done
    /\ features' = [done |-> TRUE, value |-> clean_badge_text(Badge(badge_text))]
    /\ UNCHANGED badge_text

(***************************************************************************)
(* SpecParse: parse_listing_card applied to enumerated fragments.          *)
(***************************************************************************)
SpanKinds == [attribute_text : BOOLEAN, admin : BOOLEAN]

Fragments ==
    [ anchor  : {"none", "nohref", "href"},
      heading : BOOLEAN,
      price   : {"none", "nostrong", "strong"},
      spans   : UNION { [1..n -> SpanKinds] : n \in 0..MaxSpans },
      sizes   : 0..2,
      badge   : {NoBadge, Badge(<<>>), Badge(ExampleBadge)} ]

FullCard ==
    [ anchor |-> "href", heading |-> TRUE, price |-> "strong",
      spans |-> <<[attribute_text |-> FALSE, admin |-> TRUE],
                  [attribute_text |-> TRUE, admin |-> FALSE]>>,
      sizes |-> 2, badge |-> Badge(ExampleBadge) ]

ParseIdle ==
    /\ listing = FullCard
    /\ cards = NoCards

ParseCard ==
    /\ cards.state = "none"
    /\ cards' = parse_listing_card(listing)
    /\ UNCHANGED listing

(***************************************************************************)
(* validate_input_params and extract_data                                  *)
(***************************************************************************)
VALID_ADS_TYPES == {"jual", "sewa"}
VALID_PROPERTY_TYPES == {"rumah", "apartemen", "kost", "villa", "hotel"}


\* variant: num_pages is not checked
validate_input_params_NoPages(a) ==
    IF a.ads_type \notin VALID_ADS_TYPES THEN "ValueError"
    ELSE IF a.property_type \notin VALID_PROPERTY_TYPES THEN "ValueError"
    ELSE "ok"

\* num_pages is [is_int, value]: is_int is isinstance(num_pages, int)
validate_input_params(a) ==
    IF a.ads_type \notin VALID_ADS_TYPES THEN "ValueError"
    ELSE IF a.property_type \notin VALID_PROPERTY_TYPES THEN "ValueError"
    ELSE IF ~a.num_pages.is_int \/ a.num_pages.value <= 0 THEN "ValueError"
    ELSE "ok"

Arguments(ads_type, property_type, is_int, value) ==
    [ ads_type |-> ads_type, property_type |-> property_type,
      num_pages |-> [is_int |-> is_int, value |-> value] ]

\* the arguments the calls are drawn from: valid ones for every page count,
\* and ones that break each rule of validate_input_params (2.0 is no int)
Args ==
    { Arguments("jual", "rumah", TRUE, n) : n \in 1..MaxPages }
    \cup { Arguments("sewa", "kost", TRUE, 1),
           Arguments("beli", "rumah", TRUE, 1),
           Arguments("jual", "ruko", TRUE, 1),
           Arguments("jual", "rumah", TRUE, 0),
           Arguments("sewa", "villa", TRUE, -1),
           Arguments("jual", "rumah", FALSE, 2),
           Arguments("beli", "ruko", FALSE, 0) }

NoHrefCard == [FullCard EXCEPT !.anchor = "nohref"]

\* the listing cards a page body can hold
ExtractCards == {FullCard, NoHrefCard}
Bodies == UNION { [1..n -> ExtractCards] : n \in 0..MaxCards }

NoResponse == [status |-> "none", listing_cards |-> <<>>]


\* variant: a page without cards does not end the loop
EmptyPageBreaks_Never(listing_cards) == FALSE

\* `if not listing_cards: break`
EmptyPageBreaks(listing_cards) == listing_cards = <<>>


\* variant: a rate-limited page is fetched again
IterAfter_Retry429(outcome, it) == IF outcome = "429" THEN it - 1 ELSE it

\* variant: a failed page is fetched again
IterAfter_RetryError(outcome, it) ==
    IF outcome \in {"other", "exception"} THEN it - 1 ELSE it

\* The range iterator of the for statement is not touched by the loop body:
\* neither `page_num -= 1; continue` (429) nor the error paths move it.
IterAfter(outcome, it) == it


\* variant: the KeyboardInterrupt is not caught and reaches the caller
InterruptOutcome_Propagates == "raised"

\* `except KeyboardInterrupt` around the session block: the function goes on
\* to build and return the DataFrame
InterruptOutcome == "returned"

\* where a KeyboardInterrupt can reach the loop: the blocking calls
\* (time.sleep in the limiter, session.get) and, the signal being
\* asynchronous, the card loop
SuspensionPoints == {"sleep", "get", "backoff_429", "backoff_error"}
InterruptPoints == SuspensionPoints \cup {"parse"}

\* variant: the record is appended before the request's fields are added
ListingData_NoUpdate(card_record, a) == [ card |-> card_record ]

\* variant: new records are put in front
AppendRecord_Front(data, record) == <<record>> \o data

\* all_data.append(listing_data)
AppendRecord(data, record) == Append(data, record)

\* listing_data.update({'ads_type': ..., 'property_type': ...}); the parsed
\* fields are kept together under `card`
ListingData(card_record, a) ==
    [ card          |-> card_record,
      ads_type      |-> a.ads_type,
      property_type |-> a.property_type ]

ExtractIdle ==
    /\ pc = "idle"
    /\ args = [ads_type |-> "jual", property_type |-> "rumah",
               num_pages |-> [is_int |-> TRUE, value |-> 1]]
    /\ page_iter = 1
    /\ page_num = 0
    /\ all_data = <<>>
    /\ provenance = <<>>
    /\ response = NoResponse
    /\ card_i = 0
    /\ requests = <<>>
    /\ handler_calls = [handle_success |-> 0, handle_rate_limit |-> 0,
                        handle_other_error |-> 0]
    /\ interrupted = "no"

\* line 155: the for statement takes the next value of range(1, num_pages + 1)
\* and the body starts with limiter.sleep(); an exhausted range ends the loop
LoopHead(it, l) ==
    IF it <= args.num_pages.value
    THEN /\ pc' = "sleep"
         /\ page_num' = it
         /\ page_iter' = it + 1
         /\ \E jitter \in SleepJitter :
               last_wait' = [by |-> "sleep", dur |-> sleep_time(l, jitter),
                             base_before |-> l.base_sleep_time]
    ELSE /\ pc' = "returned"
         /\ page_iter' = it
         /\ last_wait' = NoWait
         /\ UNCHANGED page_num

\* lines 141-155
Call ==
    /\ pc = "call"
    /\ IF validate_input_params(args) # "ok"
       THEN /\ pc' = "raised"
            /\ UNCHANGED <<limiter, last_wait, page_iter, page_num>>
       ELSE /\ limiter' = NewRateLimiter
            /\ LoopHead(1, NewRateLimiter)
    /\ all_data' = <<>>
    /\ provenance' = <<>>
    /\ UNCHANGED <<response, card_i, requests, handler_calls, interrupted,
                   args, ncalls, streak_base>>

\* line 159: limiter.sleep() returns
SleepDone ==
    /\ pc = "sleep"
    /\ pc' = "get"
    /\ last_wait' = NoWait
    /\ UNCHANGED <<limiter, page_iter, page_num, all_data, provenance,
                   response, card_i, requests, handler_calls, interrupted,
                   args, ncalls, streak_base>>

Request(outcome, listing_cards) ==
    [page |-> page_num, outcome |-> outcome, listing_cards |-> listing_cards]

\* lines 162-173: status 200
Get200 ==
    /\ pc = "get"
    /\ \E listing_cards \in Bodies :
          /\ requests' = Append(requests, Request("200", listing_cards))
          /\ response' = [status |-> "200", listing_cards |-> listing_cards]
          /\ IF EmptyPageBreaks(listing_cards)
             THEN pc' = "returned" /\ card_i' = 0
             ELSE pc' = "parse" /\ card_i' = 1
    /\ limiter' = handle_success(limiter)
    /\ handler_calls' = [handler_calls EXCEPT !.handle_success = @ + 1]
    /\ UNCHANGED <<last_wait, page_iter, page_num, all_data, provenance,
                   interrupted, args, ncalls, streak_base>>

\* lines 180-183: status 429, up to the time.sleep of handle_rate_limit
Get429 ==
    /\ pc = "get"
    /\ requests' = Append(requests, Request("429", <<>>))
    /\ response' = [status |-> "429", listing_cards |-> <<>>]
    /\ limiter' = handle_rate_limit(limiter)
    /\ \E jitter \in BackoffJitter :
          last_wait' = [by |-> "handle_rate_limit", dur |-> backoff_time(limiter, jitter),
                        base_before |-> limiter.base_sleep_time]
    /\ handler_calls' = [handler_calls EXCEPT !.handle_rate_limit = @ + 1]
    /\ pc' = "backoff_429"
    /\ UNCHANGED <<page_iter, page_num, all_data, provenance, card_i,
                   interrupted, args, ncalls, streak_base>>

\* lines 186-192: another status, or a RequestException raised by session.get,
\* up to the time.sleep of handle_other_error
GetError ==
    /\ pc = "get"
    /\ \E outcome \in {"other", "exception"} :
          /\ requests' = Append(requests, Request(outcome, <<>>))
          /\ response' = IF outcome = "other"
                         THEN [status |-> "other", listing_cards |-> <<>>]
                         ELSE response
    /\ limiter' = handle_other_error(limiter)
    /\ last_wait' = [by |-> "handle_other_error", dur |-> other_error_time(limiter),
                     base_before |-> limiter.base_sleep_time]
    /\ handler_calls' = [handler_calls EXCEPT !.handle_other_error = @ + 1]
    /\ pc' = "backoff_error"
    /\ UNCHANGED <<page_iter, page_num, all_data, provenance, card_i,
                   interrupted, args, ncalls, streak_base>>

\* lines 181-184: the backoff is over; page_num -= 1; continue
Backoff429Done ==
    /\ pc = "backoff_429"
    /\ LET decremented == page_num - 1
       IN  IF IterAfter("429", page_iter) <= args.num_pages.value
           THEN LoopHead(IterAfter("429", page_iter), limiter)
           ELSE /\ pc' = "returned"
                /\ page_iter' = IterAfter("429", page_iter)
                /\ page_num' = decremented
                /\ last_wait' = NoWait
    /\ UNCHANGED <<limiter, all_data, provenance, response, card_i, requests,
                   handler_calls, interrupted, args, ncalls, streak_base>>

\* lines 188 and 192: the wait of handle_other_error is over; next iteration
BackoffErrorDone ==
    /\ pc = "backoff_error"
    /\ LoopHead(IterAfter(requests[Len(requests)].outcome, page_iter), limiter)
    /\ UNCHANGED <<limiter, all_data, provenance, response, card_i, requests,
                   handler_calls, interrupted, args, ncalls, streak_base>>

\* lines 175-178 and 193-194: one card of the page; an exception raised by
\* parse_listing_card is caught by `except Exception` and ends the page
ParsePageCard ==
    /\ pc = "parse"
    /\ LET got == parse_listing_card(response.listing_cards[card_i])
       IN  IF got.state = "raised"
           THEN /\ LoopHead(IterAfter("200", page_iter), limiter)
                /\ UNCHANGED <<all_data, provenance, card_i>>
           ELSE /\ all_data' = AppendRecord(all_data, ListingData(got.value[1], args))
                /\ provenance' = AppendRecord(provenance, [page |-> page_num, card |-> card_i])
                /\ IF card_i < Len(response.listing_cards)
                   THEN /\ card_i' = card_i + 1
                        /\ UNCHANGED <<pc, page_iter, page_num, last_wait>>
                   ELSE /\ LoopHead(IterAfter("200", page_iter), limiter)
                        /\ UNCHANGED card_i
    /\ UNCHANGED <<limiter, response, requests, handler_calls, interrupted,
                   args, ncalls, streak_base>>

\* lines 196-199: KeyboardInterrupt
Interrupt ==
    /\ pc \in InterruptPoints
    /\ interrupted' = pc
    /\ pc' = InterruptOutcome
    /\ UNCHANGED <<limiter, last_wait, page_iter, page_num, all_data, provenance,
                   response, card_i, requests, handler_calls, args, ncalls, streak_base>>

ExtractNext ==
    \/ Call
    \/ SleepDone
    \/ Get200
    \/ Get429
    \/ GetError
    \/ Backoff429Done
    \/ BackoffErrorDone
    \/ ParsePageCard
    \/ Interrupt

(***************************************************************************)
(* SpecLimiter: a fresh RateLimiter driven by arbitrary calls.             *)
(***************************************************************************)
LimiterIdle ==
    /\ limiter = NewRateLimiter
    /\ last_wait = NoWait
    /\ ncalls = 0
    /\ streak_base = NewRateLimiter.base_sleep_time

LSleep ==
    /\ ncalls < MaxCalls
    /\ \E jitter \in SleepJitter :
          last_wait' = [by |-> "sleep", dur |-> sleep_time(limiter, jitter),
                        base_before |-> limiter.base_sleep_time]
    /\ ncalls' = ncalls + 1
    /\ UNCHANGED <<limiter, streak_base>>

LHandleSuccess ==
    /\ ncalls < MaxCalls
    /\ limiter' = handle_success(limiter)
    /\ last_wait' = NoWait
    /\ ncalls' = ncalls + 1
    /\ streak_base' = StreakBase(limiter', streak_base)

LHandleRateLimit ==
    /\ ncalls < MaxCalls
    /\ limiter' = handle_rate_limit(limiter)
    /\ \E jitter \in BackoffJitter :
          last_wait' = [by |-> "handle_rate_limit", dur |-> backoff_time(limiter, jitter),
                        base_before |-> limiter.base_sleep_time]
    /\ ncalls' = ncalls + 1
    /\ streak_base' = StreakBase(limiter', streak_base)

LHandleOtherError ==
    /\ ncalls < MaxCalls
    /\ limiter' = handle_other_error(limiter)
    /\ last_wait' = [by |-> "handle_other_error", dur |-> other_error_time(limiter),
                     base_before |-> limiter.base_sleep_time]
    /\ ncalls' = ncalls + 1
    /\ streak_base' = StreakBase(limiter', streak_base)

LimiterNext == LSleep \/ LHandleSuccess \/ LHandleRateLimit \/ LHandleOtherError

(***************************************************************************)
(* The specifications.                                                     *)
(***************************************************************************)
(***************************************************************************)
(* src/src/transform.py: clean_price_column and parse_price, on one cell   *)
(* of the price_rp column.  Texts are sequences of characters.  A float is *)
(* modelled by its decimal digits, [int, frac]; the multipliers are powers *)
(* of ten, so a product is a shift of the decimal point.  The texts drawn  *)
(* have fewer fractional digits than the smallest multiplier has zeros:    *)
(* every product is a whole number, the binary float is within 0.5 of it   *)
(* and round(0) gives exactly that number.  An Int64 is modelled by its    *)
(* decimal digits (the values exceed 32 bits).                             *)
(***************************************************************************)
UpperLetters == <<"A","B","C","D","E","F","G","H","I","J","K","L","M",
                  "N","O","P","Q","R","S","T","U","V","W","X","Y","Z">>
LowerLetters == <<"a","b","c","d","e","f","g","h","i","j","k","l","m",
                  "n","o","p","q","r","s","t","u","v","w","x","y","z">>

\* variant: the case of the text is kept
StrLower_Off(s) == s

\* str.lower()
StrLower(s) ==
    [i \in 1..Len(s) |->
        IF s[i] \in Upper
        THEN LowerLetters[CHOOSE k \in 1..26 : UpperLetters[k] = s[i]]
        ELSE s[i]]

\* sub occurs in s at position i
OccursAt(s, sub, i) ==
    /\ i + Len(sub) - 1 <= Len(s)
    /\ SubSeq(s, i, i + Len(sub) - 1) = sub

\* `sub in s`
StrContains(s, sub) == \E i \in 1..(Len(s) + 1) : OccursAt(s, sub, i)

\* variant: the decimal comma is left as it is
StrReplace_Off(s, old, new) == s

\* str.replace(old, new) for a non-empty old: every occurrence, left to right
RECURSIVE StrReplaceFrom(_, _, _, _)
StrReplaceFrom(s, old, new, i) ==
    IF i > Len(s) THEN <<>>
    ELSE IF OccursAt(s, old, i)
         THEN new \o StrReplaceFrom(s, old, new, i + Len(old))
         ELSE <<s[i]>> \o StrReplaceFrom(s, old, new, i + 1)

StrReplace(s, old, new) == StrReplaceFrom(s, old, new, 1)

\* str.strip()
RECURSIVE StrStrip(_)
StrStrip(s) ==
    IF s = <<>> THEN s
    ELSE IF Head(s) \in Space THEN StrStrip(Tail(s))
    ELSE IF s[Len(s)] \in Space THEN StrStrip(SubSeq(s, 1, Len(s) - 1))
    ELSE s

AllDigits(s) == \A i \in 1..Len(s) : s[i] \in Digit

\* float(text): surrounding blanks are ignored; digits with at most one
\* point and at least one digit; anything else is a ValueError
float(text) ==
    LET t == StrStrip(text)
        points == {i \in 1..Len(t) : t[i] = "."}
    IN  IF Cardinality(points) = 0 /\ Len(t) > 0 /\ AllDigits(t)
        THEN [ok |-> TRUE, int |-> t, frac |-> <<>>]
        ELSE IF Cardinality(points) = 1
        THEN LET dot == CHOOSE i \in points : TRUE
                 ip == SubSeq(t, 1, dot - 1)
                 fp == SubSeq(t, dot + 1, Len(t))
             IN  IF AllDigits(ip) /\ AllDigits(fp) /\ Len(ip) + Len(fp) > 0
                 THEN [ok |-> TRUE, int |-> ip, frac |-> fp]
                 ELSE [ok |-> FALSE, int |-> <<>>, frac |-> <<>>]
        ELSE [ok |-> FALSE, int |-> <<>>, frac |-> <<>>]

Zeros(n) == [i \in 1..n |-> "0"]

RECURSIVE DropLeadingZeros(_)
DropLeadingZeros(d) ==
    IF Len(d) > 1 /\ Head(d) = "0" THEN DropLeadingZeros(Tail(d)) ELSE d

\* f * 10^zeros for a float with at most `zeros` fractional digits
TimesPowerOfTen(f, zeros) ==
    [int |-> f.int \o f.frac \o Zeros(zeros - Len(f.frac)), frac |-> <<>>]

\* .round(0).astype("Int64") of a whole float: its decimal digits
Int64(f) == DropLeadingZeros(IF f.int = <<>> THEN <<"0">> ELSE f.int)

Str_triliun == <<"t","r","i","l","i","u","n">>
Str_miliar == <<"m","i","l","i","a","r">>
Str_juta == <<"j","u","t","a">>
Str_ribu == <<"r","i","b","u">>

\* the branches of parse_price in order: the word looked for and the
\* number of zeros of its multiplier
PriceUnits ==
    << [word |-> Str_triliun, zeros |-> 12], [word |-> Str_miliar, zeros |-> 9],
       [word |-> Str_juta, zeros |-> 6], [word |-> Str_ribu, zeros |-> 3] >>

NoneCell == [kind |-> "None", value |-> <<>>]

\* parse_price(price): a float, None, or the text unchanged
parse_price(price) ==
    IF price.kind # "str" THEN NoneCell
    ELSE LET hits == {k \in 1..Len(PriceUnits) :
                         StrContains(price.value, PriceUnits[k].word)}
         IN  IF hits = {} THEN price
             ELSE LET k == CHOOSE h \in hits : \A g \in hits : h <= g
                      unit == PriceUnits[k]
                      f == float(StrReplace(price.value, <<" ">> \o unit.word, <<>>))
                  IN  IF f.ok
                      THEN [kind |-> "float", value |-> TimesPowerOfTen(f, unit.zeros)]
                      ELSE NoneCell

\* line 49: .str.lower().str.replace('rp ', '').str.replace(',', '.').str.strip();
\* the .str methods leave a missing cell missing
str_clean(cell) ==
    IF cell.kind # "str" THEN cell
    ELSE [kind |-> "str",
          value |-> StrStrip(StrReplace(StrReplace(StrLower(cell.value),
                                                   <<"r","p"," ">>, <<>>),
                                        <<",">>, <<".">>))]

\* line 51: .map(parse_price).round(0).astype("Int64"); a text that
\* parse_price returned unchanged makes the column an object column, which
\* round() rejects
to_Int64(cell) ==
    LET parsed == parse_price(cell)
    IN  IF parsed.kind = "float" THEN [kind |-> "Int64", value |-> Int64(parsed.value)]
        ELSE IF parsed.kind = "None" THEN [kind |-> "NA", value |-> <<>>]
        ELSE [kind |-> "raised", value |-> <<>>]

PricePrefixes == { <<"R","p"," ">>, <<"r","p"," ">>, <<"R","P"," ">>, <<>> }
PriceNumbers ==
    { <<"1",",","5">>, <<"1",".","5">>, <<"2">>, <<"1",",","2","5">>,
      <<"0",",","5">>, <<"1",",","5",",","0">>, <<>> }
PriceWords ==
    { <<" ","M","i","l","i","a","r">>, <<" ","m","i","l","i","a","r">>,
      <<" ","M","I","L","I","A","R">>, <<"M","i","l","i","a","r">>,
      <<" ","T","r","i","l","i","u","n">>, <<" ","J","u","t","a">>,
      <<" ","R","i","b","u">>, <<>> }

\* the cells drawn: a missing cell, or prefix + number + word
PriceCells ==
    {NoneCell} \cup
    { [kind |-> "str", value |-> p \o n \o w] :
          p \in PricePrefixes, n \in PriceNumbers, w \in PriceWords }

PriceIdle ==
    /\ price_text = NoneCell
    /\ price_rp = [stage |-> "raw", cell |-> NoneCell]

\* clean_price_column, line 49
StrClean ==
    /\ price_rp.stage = "raw"
    /\ price_rp' = [stage |-> "cleaned", cell |-> str_clean(price_rp.cell)]
    /\ UNCHANGED price_text

\* clean_price_column, line 51
MapParsePrice ==
    /\ price_rp.stage = "cleaned"
    /\ price_rp' = [stage |-> "converted", cell |-> to_Int64(price_rp.cell)]
    /\ UNCHANGED price_text

(***************************************************************************)
(* src/src/load.py: load_to_postgres.  The tables are modelled twice: `db` *)
(* is what the database holds as committed, `conn` is what the connection  *)
(* of `with engine.begin() as conn` sees inside its transaction.  The      *)
(* staging table is a sequence of rows, the main table a function from the *)
(* unique key (link) to the other column.                                  *)
(***************************************************************************)
MaxRows == 3

Links == {"a", "b"}
PriceValues == {1, 2}
Rows == [link : Links, price : PriceValues]

\* the DataFrames drawn
Frames == UNION { [1..n -> Rows] : n \in 0..MaxRows }

\* batch_size: an int or not, and its value
BatchSizes ==
    { [int |-> TRUE, value |-> 0], [int |-> TRUE, value |-> 1],
      [int |-> TRUE, value |-> 2], [int |-> FALSE, value |-> 2] }

\* line 76: isinstance(batch_size, int) and batch_size > 0
ValidBatchSize(b) == b.int /\ b.value > 0

MainTables == UNION { [K -> PriceValues] : K \in SUBSET Links }
StagingTables == { <<>>, <<[link |-> "a", price |-> 2]>> }

NoConn == [staging |-> <<>>, main |-> <<>>]
NotStarted == [pc |-> "idle", i |-> 0, failed_at |-> "none", inserted |-> 0]

\* variant: every statement is committed as soon as it is executed
InTransaction_Autocommit(committed, seen) == seen

\* what the database holds as committed after a statement executed on the
\* connection of `with engine.begin() as conn`: nothing new before the commit
InTransaction(committed, seen) == committed

\* TRUNCATE TABLE stg_table
truncate_staging_table(t) == [t EXCEPT !.staging = <<>>]

\* df.iloc[i:i + batch_size]
Chunk(df, i, batch_size) ==
    SubSeq(df, i + 1, IF i + batch_size < Len(df) THEN i + batch_size ELSE Len(df))

\* chunk.to_sql(stg_table, con=conn, if_exists='append')
to_sql(t, chunk) == [t EXCEPT !.staging = @ \o chunk]

StagingLinks(t) == { t.staging[k].link : k \in 1..Len(t.staging) }

\* INSERT ... ON CONFLICT DO UPDATE cannot affect a row a second time: two
\* staging rows with one unique key make the statement fail
MergeFails(t) ==
    \E j \in 1..Len(t.staging) : \E k \in 1..Len(t.staging) :
        j # k /\ t.staging[j].link = t.staging[k].link

\* rows for which RETURNING xmax = 0 is true: the newly inserted ones
inserted_count(t) == Cardinality(StagingLinks(t) \ DOMAIN t.main)

\* INSERT INTO main SELECT FROM staging ON CONFLICT (unique_key) DO UPDATE
merge_staging_to_main(t) ==
    [t EXCEPT !.main =
        [l \in DOMAIN t.main \cup StagingLinks(t) |->
            IF l \in StagingLinks(t)
            THEN (CHOOSE r \in {t.staging[k] : k \in 1..Len(t.staging)} : r.link = l).price
            ELSE t.main[l]]]

LoadIdle ==
    /\ load_args = [df |-> <<>>, batch_size |-> [int |-> TRUE, value |-> 1]]
    /\ load_st = NotStarted
    /\ conn = NoConn
    /\ db = NoConn
    /\ db_before = NoConn

\* lines 72-77: an empty DataFrame returns, a bad batch_size raises, both
\* before the database is touched
LoadCall ==
    /\ load_st.pc = "call"
    /\ load_st' =
         IF load_args.df = <<>> THEN [load_st EXCEPT !.pc = "returned"]
         ELSE IF ~ValidBatchSize(load_args.batch_size)
              THEN [load_st EXCEPT !.pc = "raised", !.failed_at = "batch_size"]
              ELSE [load_st EXCEPT !.pc = "begin"]
    /\ UNCHANGED <<load_args, conn, db, db_before>>

\* lines 80-82: create_engine and engine.begin()
LoadBegin ==
    /\ load_st.pc = "begin"
    /\ conn' = db
    /\ load_st' = [load_st EXCEPT !.pc = "truncate"]
    /\ UNCHANGED <<load_args, db, db_before>>

\* line 85
LoadTruncate ==
    /\ load_st.pc = "truncate"
    /\ conn' = truncate_staging_table(conn)
    /\ db' = InTransaction(db, conn')
    /\ load_st' = [load_st EXCEPT !.pc = "insert", !.i = 0]
    /\ UNCHANGED <<load_args, db_before>>

\* line 86, one iteration of the loop of insert_to_staging
LoadInsertBatch ==
    /\ load_st.pc = "insert"
    /\ LET size == load_args.batch_size.value
           next == load_st.i + size
       IN  /\ conn' = to_sql(conn, Chunk(load_args.df, load_st.i, size))
           /\ load_st' = [load_st EXCEPT
                            !.i = next,
                            !.pc = IF next < Len(load_args.df) THEN "insert" ELSE "merge"]
    /\ db' = InTransaction(db, conn')
    /\ UNCHANGED <<load_args, db_before>>

\* line 87; a failing merge statement raises, and leaving the `with` block
\* by an exception rolls the transaction back
LoadMerge ==
    /\ load_st.pc = "merge"
    /\ IF MergeFails(conn)
       THEN /\ conn' = NoConn
            /\ load_st' = [load_st EXCEPT !.pc = "raised", !.failed_at = "merge"]
            /\ UNCHANGED db
       ELSE /\ conn' = merge_staging_to_main(conn)
            /\ load_st' = [load_st EXCEPT !.pc = "commit",
                                          !.inserted = inserted_count(conn)]
            /\ db' = InTransaction(db, conn')
    /\ UNCHANGED <<load_args, db_before>>

\* line 82: leaving the `with engine.begin()` block normally commits
LoadCommit ==
    /\ load_st.pc = "commit"
    /\ db' = conn
    /\ conn' = NoConn
    /\ load_st' = [load_st EXCEPT !.pc = "returned"]
    /\ UNCHANGED <<load_args, db_before>>

\* lines 90-96: a database error in any step (connection, statement or
\* commit) is logged and raised again; the transaction is rolled back
LoadFail ==
    /\ load_st.pc \in {"begin", "truncate", "insert", "merge", "commit"}
    /\ load_st' = [load_st EXCEPT !.pc = "raised", !.failed_at = load_st.pc]
    /\ conn' = NoConn
    /\ UNCHANGED <<load_args, db, db_before>>

LoadNext ==
    \/ LoadCall
    \/ LoadBegin
    \/ LoadTruncate
    \/ LoadInsertBatch
    \/ LoadMerge
    \/ LoadCommit
    \/ LoadFail

(***************************************************************************)
(* src/dags/dags.py: one run of a DAG built by create_dag.  The tasks are  *)
(* run by the Airflow scheduler: a task with the default trigger rule runs *)
(* when all its upstream tasks succeeded and is marked upstream_failed     *)
(* when one of them failed; cleanup_files_task has TriggerRule.ALL_DONE    *)
(* and runs once all its upstream tasks are finished.  A task that raises  *)
(* is tried again `retries` times.  The return value of a task is stored   *)
(* only when the task returns; an argument taken from a task that stored   *)
(* none is None.                                                           *)
(***************************************************************************)
retries == 1

Tasks == {"extract", "transform", "load", "cleanup"}

\* the paths save_to_csv builds under ./data/raw and ./data/processed
RawPath == "./data/raw"
ProcessedPath == "./data/processed"
NoPath == "None"

Finished == {"success", "failed", "upstream_failed"}

\* lines 137-143: the arguments and `extract >> transform >> load >> cleanup`
Upstream(t) ==
    IF t = "extract" THEN {}
    ELSE IF t = "transform" THEN {"extract"}
    ELSE IF t = "load" THEN {"transform"}
    ELSE {"extract", "transform", "load"}

\* the trigger rule of the task: ALL_DONE for cleanup (line 121), the
\* default all_success for the others
Triggered(t) ==
    /\ task_state[t] \in {"none", "up_for_retry"}
    /\ IF t = "cleanup"
       THEN \A u \in Upstream(t) : task_state[u] \in Finished
       ELSE \A u \in Upstream(t) : task_state[u] = "success"

\* the state of a task after an attempt, `made` attempts having been made
AfterAttempt(ok, made) ==
    IF ok THEN "success"
    ELSE IF made <= retries THEN "up_for_retry" ELSE "failed"

\* a task that ends in save_to_csv(..., path) and `return path`: it raises
\* before the file is created, or after df.to_csv has created it, or returns
FileTaskOutcomes == {"raised_before_write", "raised_after_write", "returned"}

FileTask(t, path, outcome) ==
    /\ Triggered(t)
    /\ tries' = [tries EXCEPT ![t] = @ + 1]
    /\ task_state' = [task_state EXCEPT ![t] = AfterAttempt(outcome = "returned", tries[t] + 1)]
    /\ IF outcome = "raised_before_write"
       THEN UNCHANGED <<files, written>>
       ELSE /\ files' = files \cup {path}
            /\ written' = written \cup {path}
    /\ xcom' = [xcom EXCEPT ![t] = IF outcome = "returned" THEN path ELSE NoPath]

\* lines 54-77
RunExtract == \E outcome \in FileTaskOutcomes : FileTask("extract", RawPath, outcome)

\* lines 79-95
RunTransform == \E outcome \in FileTaskOutcomes : FileTask("transform", ProcessedPath, outcome)

\* lines 97-119: load_task writes no file and returns nothing
RunLoad ==
    /\ Triggered("load")
    /\ \E ok \in BOOLEAN :
          task_state' = [task_state EXCEPT !["load"] = AfterAttempt(ok, tries["load"] + 1)]
    /\ tries' = [tries EXCEPT !["load"] = @ + 1]
    /\ UNCHANGED <<xcom, files, written>>

\* a task with the default trigger rule whose upstream task did not succeed
MarkUpstreamFailed ==
    /\ \E t \in {"transform", "load"} :
          /\ task_state[t] = "none"
          /\ \E u \in Upstream(t) : task_state[u] \in {"failed", "upstream_failed"}
          /\ task_state' = [task_state EXCEPT ![t] = "upstream_failed"]
    /\ UNCHANGED <<tries, xcom, files, written>>

\* lines 127-134 for one path: os.path.exists(None) raises TypeError, which
\* is caught like an error of os.remove; a missing file is skipped
RemoveOutcomes == {"removed", "raised"}

Remove(on_disk, path, outcome) ==
    IF path = NoPath \/ path \notin on_disk \/ outcome = "raised"
    THEN on_disk
    ELSE on_disk \ {path}

\* lines 121-134
RunCleanup ==
    /\ Triggered("cleanup")
    /\ \E o1 \in RemoveOutcomes : \E o2 \in RemoveOutcomes :
          files' = Remove(Remove(files, xcom["extract"], o1), xcom["transform"], o2)
    /\ task_state' = [task_state EXCEPT !["cleanup"] = "success"]
    /\ tries' = [tries EXCEPT !["cleanup"] = @ + 1]
    /\ UNCHANGED <<xcom, written>>

DagIdle ==
    /\ task_state = [t \in Tasks |-> "none"]
    /\ tries = [t \in Tasks |-> 0]
    /\ xcom = [t \in Tasks |-> NoPath]
    /\ files = {}
    /\ written = {}

DagNext ==
    \/ RunExtract
    \/ RunTransform
    \/ RunLoad
    \/ MarkUpstreamFailed
    \/ RunCleanup

vars == <<limvars, badgevars, parsevars, extractvars, pricevars, loadvars, dagvars>>

\* extract_data called once with arguments drawn from Args
Init ==
    /\ LimiterIdle
    /\ BadgeIdle
    /\ ParseIdle
    /\ PriceIdle
    /\ LoadIdle
    /\ DagIdle
    /\ pc = "call"
    /\ args \in Args
    /\ page_iter = 1
    /\ page_num = 0
    /\ all_data = <<>>
    /\ provenance = <<>>
    /\ response = NoResponse
    /\ card_i = 0
    /\ requests = <<>>
    /\ handler_calls = [handle_success |-> 0, handle_rate_limit |-> 0,
                        handle_other_error |-> 0]
    /\ interrupted = "no"

Next == ExtractNext /\ UNCHANGED <<badgevars, parsevars, pricevars, loadvars, dagvars>>

Spec == Init /\ [][Next]_vars

LimiterInit ==
    /\ LimiterIdle
    /\ BadgeIdle
    /\ ParseIdle
    /\ ExtractIdle
    /\ PriceIdle
    /\ LoadIdle
    /\ DagIdle

LimiterStep == LimiterNext /\ UNCHANGED <<badgevars, parsevars, extractvars, pricevars, loadvars, dagvars>>

SpecLimiter == LimiterInit /\ [][LimiterStep]_vars

BadgeInit ==
    /\ LimiterIdle
    /\ ParseIdle
    /\ ExtractIdle
    /\ PriceIdle
    /\ LoadIdle
    /\ DagIdle
    /\ badge_text \in BadgeTexts
    /\ features = NoFeatures

BadgeStep == CleanBadge /\ UNCHANGED <<limvars, parsevars, extractvars, pricevars, loadvars, dagvars>>

SpecBadge == BadgeInit /\ [][BadgeStep]_vars

ParseInit ==
    /\ LimiterIdle
    /\ BadgeIdle
    /\ ExtractIdle
    /\ PriceIdle
    /\ LoadIdle
    /\ DagIdle
    /\ listing \in Fragments
    /\ cards = NoCards

ParseStep == ParseCard /\ UNCHANGED <<limvars, badgevars, extractvars, pricevars, loadvars, dagvars>>

SpecParse == ParseInit /\ [][ParseStep]_vars

\* clean_price_column applied to a column holding one cell drawn from PriceCells
PriceInit ==
    /\ LimiterIdle
    /\ BadgeIdle
    /\ ParseIdle
    /\ ExtractIdle
    /\ LoadIdle
    /\ DagIdle
    /\ price_text \in PriceCells
    /\ price_rp = [stage |-> "raw", cell |-> price_text]

PriceStep ==
    (StrClean \/ MapParsePrice)
        /\ UNCHANGED <<limvars, badgevars, parsevars, extractvars, loadvars, dagvars>>

SpecPrice == PriceInit /\ [][PriceStep]_vars

\* load_to_postgres called once on a database holding earlier rows
LoadInit ==
    /\ LimiterIdle
    /\ BadgeIdle
    /\ ParseIdle
    /\ ExtractIdle
    /\ PriceIdle
    /\ DagIdle
    /\ load_args \in [df : Frames, batch_size : BatchSizes]
    /\ load_st = [NotStarted EXCEPT !.pc = "call"]
    /\ conn = NoConn
    /\ db \in [staging : StagingTables, main : MainTables]
    /\ db_before = db

LoadStep ==
    LoadNext /\ UNCHANGED <<limvars, badgevars, parsevars, extractvars, pricevars, dagvars>>

SpecLoad == LoadInit /\ [][LoadStep]_vars

\* one DAG run; files of an earlier run of the day may be on disk
DagInit ==
    /\ LimiterIdle
    /\ BadgeIdle
    /\ ParseIdle
    /\ ExtractIdle
    /\ PriceIdle
    /\ LoadIdle
    /\ task_state = [t \in Tasks |-> "none"]
    /\ tries = [t \in Tasks |-> 0]
    /\ xcom = [t \in Tasks |-> NoPath]
    /\ files \in SUBSET {RawPath, ProcessedPath}
    /\ written = {}

DagStep ==
    DagNext /\ UNCHANGED <<limvars, badgevars, parsevars, extractvars, pricevars, loadvars>>

\* the scheduler runs a task that can run
SpecDag == DagInit /\ [][DagStep]_vars /\ WF_vars(DagStep)

(***************************************************************************)
(* The claims.                                                             *)
(***************************************************************************)
ErrorOutcomes == {"other", "exception"}

\* the records a page body gives: those of its cards, in order, up to the
\* first card parse_listing_card raises on
RECURSIVE PageRecords(_, _, _)
PageRecords(listing_cards, i, a) ==
    IF i > Len(listing_cards) THEN <<>>
    ELSE LET got == parse_listing_card(listing_cards[i])
         IN  IF got.state = "raised" THEN <<>>
             ELSE <<ListingData(got.value[1], a)>> \o PageRecords(listing_cards, i + 1, a)

\* the records of a sequence of completed requests
RECURSIVE RequestRecords(_, _)
RequestRecords(reqs, a) ==
    IF reqs = <<>> THEN <<>>
    ELSE PageRecords(Head(reqs).listing_cards, 1, a) \o RequestRecords(Tail(reqs), a)

\* C1: after a 429 for page p the next request is for page p again
\* (a rate-limited page is retried, never skipped).
C1_RetrySamePage ==
    \A i \in 1..Len(requests) :
        (requests[i].outcome = "429" /\ i < Len(requests))
            => requests[i+1].page = requests[i].page

\* C2: once a page returns 200 with zero listing cards no further page is
\* fetched, the call returns, and the result holds exactly the records of the
\* pages before it.
C2_EmptyPageStops ==
    \A i \in 1..Len(requests) :
        (requests[i].outcome = "200" /\ requests[i].listing_cards = <<>>)
            => /\ i = Len(requests)
               /\ pc = "returned"
               /\ all_data = RequestRecords(SubSeq(requests, 1, i - 1), args)
               /\ \A k \in 1..Len(provenance) : provenance[k].page < requests[i].page

C2_Witness ==
    /\ pc = "returned"
    /\ args.num_pages.value > 2
    /\ Len(requests) = 2
    /\ requests[1].page = 1 /\ Len(requests[1].listing_cards) = 2
    /\ requests[2].page = 2 /\ requests[2].outcome = "200"
    /\ requests[2].listing_cards = <<>>
    /\ Len(all_data) = 2

\* C3: a KeyboardInterrupt at a suspension point (the limiter's sleep, the
\* request, a backoff wait) ends the loop at once; the call returns normally
\* with exactly the records accumulated so far and never raises.
C3_CancelReturns ==
    /\ [][ (interrupted = "no" /\ interrupted' \in SuspensionPoints)
              => (pc \in SuspensionPoints /\ pc' = "returned" /\ all_data' = all_data) ]_vars
    /\ [](interrupted \in SuspensionPoints => pc = "returned")

C3_Witness ==
    /\ interrupted = "sleep"
    /\ pc = "returned"
    /\ page_num = 2
    /\ Len(requests) = 1 /\ requests[1].outcome = "200"
    /\ Len(all_data) = 2
    /\ \A k \in 1..Len(provenance) : provenance[k].page = 1

\* C4: a status other than 200 and 429, or a RequestException, for page p
\* calls handle_other_error exactly once; page p is never requested again,
\* contributes no record, and the next request is for page p + 1.
C4_ErrorSkipsPage ==
    /\ handler_calls.handle_other_error
         = Cardinality({i \in 1..Len(requests) : requests[i].outcome \in ErrorOutcomes})
    /\ \A i \in 1..Len(requests) :
          requests[i].outcome \in ErrorOutcomes =>
             /\ \A j \in 1..Len(requests) : j # i => requests[j].page # requests[i].page
             /\ \A k \in 1..Len(provenance) : provenance[k].page # requests[i].page
             /\ i < Len(requests) => requests[i+1].page = requests[i].page + 1
             /\ (i = Len(requests) /\ pc \in {"sleep", "get"})
                    => page_num = requests[i].page + 1
             /\ (i = Len(requests) /\ pc = "returned" /\ interrupted = "no")
                    => requests[i].page = args.num_pages.value

C4_Witness ==
    /\ Len(requests) = 3
    /\ requests[1].page = 1 /\ requests[1].outcome = "other"
    /\ requests[2].page = 2 /\ requests[2].outcome = "exception"
    /\ requests[3].page = 3
    /\ handler_calls.handle_other_error = 2

\* C5: extract_data with an ads_type outside {jual, sewa}, a property_type
\* outside {rumah, apartemen, kost, villa, hotel} or a num_pages that is no
\* positive integer raises before any limiter sleep and any request.
ValidRequest(a) ==
    /\ a.ads_type \in {"jual", "sewa"}
    /\ a.property_type \in {"rumah", "apartemen", "kost", "villa", "hotel"}
    /\ a.num_pages.is_int
    /\ a.num_pages.value > 0

C5_InvalidNoIO ==
    (~ValidRequest(args) /\ pc # "idle") =>
        /\ pc \in {"call", "raised"}
        /\ requests = <<>>
        /\ last_wait = NoWait
        /\ all_data = <<>>
        /\ handler_calls = [handle_success |-> 0, handle_rate_limit |-> 0,
                            handle_other_error |-> 0]

C5_Witness ==
    /\ pc = "raised"
    /\ args.ads_type = "jual" /\ args.property_type = "rumah"
    /\ args.num_pages.is_int /\ args.num_pages.value = 0

\* C6: min_sleep_time <= base_sleep_time <= max_sleep_time in every state of
\* a RateLimiter, from its construction on.
C6_BaseWithinBounds ==
    /\ RLeq(limiter.min_sleep_time, limiter.base_sleep_time)
    /\ RLeq(limiter.base_sleep_time, limiter.max_sleep_time)

\* the cap acted: 1.5 times the base before the call exceeded max_sleep_time
C6_Witness ==
    /\ last_wait.by = "handle_rate_limit"
    /\ RLess(limiter.max_sleep_time, RMul(last_wait.base_before, R1_5))
    /\ limiter.base_sleep_time = limiter.max_sleep_time

\* C7 as stated: after 5 consecutive handle_success calls from
\* consecutive_successes = 0 and base_sleep_time = B, base_sleep_time is
\* max(min_sleep_time, 0.5 * B).
C7_HalvedAfterFive ==
    limiter.consecutive_successes = 5 =>
        limiter.base_sleep_time = RMax(limiter.min_sleep_time, RMul(streak_base, R0_5))

\* 0.9 * 0.9 * 0.7 * 0.7 * 0.5 = 0.19845
FiveSuccessFactor == RMul(RMul(RMul(RMul(R0_9, R0_9), R0_7), R0_7), R0_5)

\* C7 amended: after 5 consecutive handle_success calls from
\* consecutive_successes = 0 and base_sleep_time = B, base_sleep_time is
\* max(min_sleep_time, 0.9 * 0.9 * 0.7 * 0.7 * 0.5 * B), strictly less than B
\* unless B already equals min_sleep_time.
C7_AfterFiveSuccesses ==
    limiter.consecutive_successes = 5 =>
        /\ limiter.base_sleep_time
             = RMax(limiter.min_sleep_time, RMul(streak_base, FiveSuccessFactor))
        /\ \/ RLess(limiter.base_sleep_time, streak_base)
           \/ streak_base = limiter.min_sleep_time

\* five successes that did not end at the floor
C7_Witness ==
    /\ limiter.consecutive_successes = 5
    /\ RLess(limiter.min_sleep_time, limiter.base_sleep_time)

\* C8: one handle_rate_limit call from base_sleep_time = B leaves
\* base_sleep_time = min(max_sleep_time, 1.5 * B), consecutive_successes = 0,
\* consecutive_429s one higher, and waits between 1.0 and 1.5 times the
\* updated base_sleep_time.
C8_RateLimitStep ==
    [][ (ncalls' = ncalls + 1 /\ last_wait'.by = "handle_rate_limit") =>
          /\ limiter'.base_sleep_time =
                (IF RLess(RMul(limiter.base_sleep_time, R1_5), limiter.max_sleep_time)
                 THEN RMul(limiter.base_sleep_time, R1_5)
                 ELSE limiter.max_sleep_time)
          /\ limiter'.consecutive_successes = 0
          /\ limiter'.consecutive_429s = limiter.consecutive_429s + 1
          /\ limiter'.min_sleep_time = limiter.min_sleep_time
          /\ limiter'.max_sleep_time = limiter.max_sleep_time
          /\ RLeq(limiter'.base_sleep_time, last_wait'.dur)
          /\ RLeq(last_wait'.dur, RMul(limiter'.base_sleep_time, R1_5)) ]_vars

\* a rate limit after a run of successes, with the longest backoff
C8_Witness ==
    /\ last_wait.by = "handle_rate_limit"
    /\ limiter.consecutive_429s = 1
    /\ ncalls > 3
    /\ limiter.base_sleep_time = RMul(last_wait.base_before, R1_5)
    /\ last_wait.dur = RMul(limiter.base_sleep_time, R1_5)

Tok_Baru == <<"B","a","r","u">>
Tok_Bagus == <<"B","a","g","u","s">>
Tok_BagusBang == <<"B","a","g","u","s","!">>
Tok_Murah == <<"M","u","r","a","h">>

\* C9 as stated: clean_badge_text of "RumahBaruBagus!Murah" is
\* ["Baru", "Bagus", "Murah"].
C9_ExampleFeatures ==
    (features.done /\ badge_text = ExampleBadge)
        => features.value = <<Tok_Baru, Tok_Bagus, Tok_Murah>>

\* C9 amended: clean_badge_text of "RumahBaruBagus!Murah" is
\* ["Baru", "Bagus!", "Murah"]: the separator goes after the "!", which stays
\* in its token, and the leading token "Rumah" is dropped.
C9_ExampleFeaturesKeepBang ==
    (features.done /\ badge_text = ExampleBadge)
        => features.value = <<Tok_Baru, Tok_BagusBang, Tok_Murah>>

C9_Witness ==
    /\ features.done
    /\ badge_text = ExampleBadge
    /\ Len(features.value) = 3

\* C10: parse_listing_card returns a record for every fragment and never
\* raises; an absent part gives a null field ('' for location, [] for
\* additional_features).
C10_ParserTotal ==
    cards.state # "none" =>
        /\ cards.state = "returned"
        /\ listing.anchor \in {"none", "nohref"} => cards.value[1].link = None
        /\ ~listing.heading => cards.value[1].name = None
        /\ listing.price # "strong" => cards.value[1].price_rp = None
        /\ (\A i \in 1..Len(listing.spans) : ~listing.spans[i].admin)
              => cards.value[1].location = ""
        /\ listing.sizes = 0 => cards.value[1].lot_size = None
        /\ ~listing.badge.present => cards.value[1].additional_features = <<>>

\* C13: the pause of RateLimiter.sleep lies in [0.8, 1.2] times
\* base_sleep_time, and sleep changes no field of the limiter.
C13_SleepStep ==
    [][ (ncalls' = ncalls + 1 /\ last_wait'.by = "sleep") =>
          /\ limiter' = limiter
          /\ RLeq(RMul(limiter.base_sleep_time, R0_8), last_wait'.dur)
          /\ RLeq(last_wait'.dur, RMul(limiter.base_sleep_time, R1_2)) ]_vars

\* the longest pause, of a limiter that has backed off
C13_Witness ==
    /\ last_wait.by = "sleep"
    /\ RLess(limiter.min_sleep_time, limiter.base_sleep_time)
    /\ last_wait.dur = RMul(limiter.base_sleep_time, R1_2)

\* C15: handle_success adds 1 to consecutive_successes, resets
\* consecutive_429s, picks the factor from the incremented counter (0.5 from
\* 5 on, 0.7 from 3 on, else 0.9) and sets base_sleep_time to
\* max(min_sleep_time, base_sleep_time * factor) only when that is strictly
\* smaller; it never increases base_sleep_time.
C15_SuccessStep ==
    [][ (ncalls' = ncalls + 1 /\ last_wait'.by = "none") =>
          LET n == limiter.consecutive_successes + 1
              factor == IF n >= 5 THEN R0_5 ELSE IF n >= 3 THEN R0_7 ELSE R0_9
              scaled == RMul(limiter.base_sleep_time, factor)
              candidate == IF RLess(scaled, limiter.min_sleep_time)
                           THEN limiter.min_sleep_time ELSE scaled
          IN  /\ limiter'.consecutive_successes = n
              /\ limiter'.consecutive_429s = 0
              /\ limiter'.base_sleep_time =
                    (IF RLess(candidate, limiter.base_sleep_time)
                     THEN candidate ELSE limiter.base_sleep_time)
              /\ RLeq(limiter'.base_sleep_time, limiter.base_sleep_time)
              /\ limiter'.min_sleep_time = limiter.min_sleep_time
              /\ limiter'.max_sleep_time = limiter.max_sleep_time ]_vars

\* the third success of a streak, which used 0.7 and stayed above the floor
C15_Witness ==
    /\ last_wait.by = "none"
    /\ limiter.consecutive_successes = 3
    /\ RLess(limiter.min_sleep_time, limiter.base_sleep_time)
    /\ limiter.base_sleep_time = RMul(streak_base, RMul(RMul(R0_9, R0_9), R0_7))

\* C16: handle_other_error resets consecutive_successes, waits exactly
\* 1.5 * base_sleep_time and leaves base_sleep_time and consecutive_429s as
\* they were.
C16_OtherErrorStep ==
    [][ (ncalls' = ncalls + 1 /\ last_wait'.by = "handle_other_error") =>
          /\ limiter'.consecutive_successes = 0
          /\ limiter'.base_sleep_time = limiter.base_sleep_time
          /\ limiter'.consecutive_429s = limiter.consecutive_429s
          /\ limiter'.min_sleep_time = limiter.min_sleep_time
          /\ limiter'.max_sleep_time = limiter.max_sleep_time
          /\ last_wait'.dur = RMul(limiter.base_sleep_time, R1_5) ]_vars

\* an error of a limiter that has backed off and has rate limits counted
C16_Witness ==
    /\ last_wait.by = "handle_other_error"
    /\ limiter.consecutive_429s = 2
    /\ limiter.base_sleep_time = RMul(R1_5, R1_5)
    /\ last_wait.dur = RMul(limiter.base_sleep_time, R1_5)

\* C20: consecutive_successes and consecutive_429s are never negative and
\* never both greater than 0.
C20_CountersExclusive ==
    /\ limiter.consecutive_successes >= 0
    /\ limiter.consecutive_429s >= 0
    /\ limiter.consecutive_successes = 0 \/ limiter.consecutive_429s = 0

\* successes counted after rate limits: the failure counter was reset
C20_Witness ==
    /\ limiter.consecutive_successes = 2
    /\ limiter.consecutive_429s = 0
    /\ RLess(limiter.min_sleep_time, limiter.base_sleep_time)

CardFields ==
    {"link", "name", "price_rp", "location", "lot_size", "building_size",
     "n_bedroom", "n_bathroom", "n_carport", "additional_features"}

\* the listing card record k of all_data was parsed from
SourceCard(k) ==
    LET from == {i \in 1..Len(requests) : requests[i].page = provenance[k].page}
    IN  requests[CHOOSE i \in from : TRUE].listing_cards[provenance[k].card]

\* C17 as stated: a KeyboardInterrupt never takes effect while a received
\* page body is being parsed, and no partially built record is in the result.
C17_NoCancelWhileParsing ==
    /\ interrupted # "parse"
    /\ \A k \in 1..Len(all_data) :
          /\ DOMAIN all_data[k] = {"card", "ads_type", "property_type"}
          /\ DOMAIN all_data[k].card = CardFields

\* C17 amended: wherever the KeyboardInterrupt takes effect, the card loop
\* included, every record of the result has all its parsed fields plus the
\* ads_type and property_type of the call.
C17_RecordsComplete ==
    /\ Len(provenance) = Len(all_data)
    /\ \A k \in 1..Len(all_data) :
          /\ DOMAIN all_data[k] = {"card", "ads_type", "property_type"}
          /\ DOMAIN all_data[k].card = CardFields
          /\ all_data[k].ads_type = args.ads_type
          /\ all_data[k].property_type = args.property_type
          /\ all_data[k].card = CardRecord(SourceCard(k))

\* interrupted between the two cards of page 1
C17_Witness ==
    /\ interrupted = "parse"
    /\ pc = "returned"
    /\ Len(requests) = 1 /\ Len(requests[1].listing_cards) = 2
    /\ Len(all_data) = 1

IsPrefix(s, t) == Len(s) <= Len(t) /\ SubSeq(t, 1, Len(s)) = s

\* C18: the records are in discovery order: by page, and within a page by
\* card; a record once appended is never removed or moved.
C18_DiscoveryOrder ==
    /\ [](\A k \in 1..Len(provenance) : \A m \in 1..Len(provenance) :
            k < m => \/ provenance[k].page < provenance[m].page
                     \/ /\ provenance[k].page = provenance[m].page
                        /\ provenance[k].card < provenance[m].card)
    /\ [][IsPrefix(all_data, all_data') /\ IsPrefix(provenance, provenance')]_vars

\* records of pages 1 and 3, page 2 having given none
C18_Witness ==
    /\ pc = "returned"
    /\ Len(all_data) = 4
    /\ provenance[1].page = 1 /\ provenance[2].page = 1
    /\ provenance[3].page = 3 /\ provenance[4].page = 3
    /\ provenance[1].card = 1 /\ provenance[2].card = 2

Terminal == {"returned", "raised"}

\* what is left to do, compared lexicographically: values the range still
\* holds, the stage of the iteration, cards left of the page
Rank ==
    IF pc \in Terminal THEN <<0, 0, 0>>
    ELSE IF pc = "call" THEN <<MaxPages + 2, 0, 0>>
    ELSE << args.num_pages.value + 2 - page_iter,
            IF pc = "sleep" THEN 3 ELSE IF pc = "get" THEN 2 ELSE 1,
            IF pc = "parse" THEN Len(response.listing_cards) + 1 - card_i ELSE 0 >>

LexLess(a, b) ==
    \/ a[1] < b[1]
    \/ a[1] = b[1] /\ a[2] < b[2]
    \/ a[1] = b[1] /\ a[2] = b[2] /\ a[3] < b[3]

ExamplePrice ==
    [kind |-> "str",
     value |-> <<"R","p"," ","1",",","5"," ","M","i","l","i","a","r">>]

\* 1500000000
Int_1500000000 ==
    [kind |-> "Int64", value |-> <<"1","5","0","0","0","0","0","0","0","0">>]

\* C14: clean_price_column turns "Rp 1,5 Miliar" into 1500000000; so it does
\* whatever the case of the letters, and with a point for the comma.
C14_ExamplePrice ==
    price_rp.stage = "converted" =>
        /\ price_text = ExamplePrice => price_rp.cell = Int_1500000000
        /\ ( /\ price_text.kind = "str"
             /\ StrReplace(StrLower(price_text.value), <<",">>, <<".">>)
                    = <<"r","p"," ","1",".","5"," ","m","i","l","i","a","r">> )
           => price_rp.cell = Int_1500000000

C14_Witness ==
    /\ price_text = ExamplePrice
    /\ price_rp.stage = "converted"
    /\ price_rp.cell.kind = "Int64"

\* the main table after all of df has been merged into `main`
MergedMain(main, df) ==
    [l \in DOMAIN main \cup {df[k].link : k \in 1..Len(df)} |->
        IF \E k \in 1..Len(df) : df[k].link = l
        THEN df[CHOOSE k \in 1..Len(df) : df[k].link = l].price
        ELSE main[l]]

\* C11: load_to_postgres is all-or-nothing: until the commit, and for ever
\* if a step fails and the error is raised, the staging table and the main
\* table are as they were at the call; when it returns they hold the whole
\* DataFrame.
C11_AllOrNothing ==
    /\ load_st.pc \in {"call", "begin", "truncate", "insert", "merge", "commit", "raised"}
          => db = db_before
    /\ load_st.pc = "returned" /\ load_args.df = <<>> => db = db_before
    /\ load_st.pc = "returned" /\ load_args.df # <<>> =>
          /\ db.staging = load_args.df
          /\ db.main = MergedMain(db_before.main, load_args.df)
    /\ load_st.failed_at # "none" <=> load_st.pc = "raised"

\* the merge failed after two batches had been inserted
C11_Witness ==
    /\ load_st.pc = "raised"
    /\ load_st.failed_at = "merge"
    /\ load_args.batch_size.value = 1
    /\ load_st.i >= 2
    /\ db_before.staging # <<>>
    /\ db = db_before

\* C12 as stated: cleanup eventually runs whatever happened upstream, and
\* once it has run no file written by this DAG run is left on disk.
C12_CleanupRemovesFiles ==
    /\ <>(task_state["cleanup"] = "success")
    /\ [](task_state["cleanup"] = "success" => written \cap files = {})

\* the first card of a page body on which parse_listing_card raises, or 0
FirstRaising(listing_cards) ==
    LET raising == {k \in 1..Len(listing_cards) : LinkRaises(listing_cards[k])}
    IN  IF raising = {} THEN 0 ELSE CHOOSE k \in raising : \A j \in raising : k <= j

\* the cards of page p that have a record in all_data
CardsKept(p) == {provenance[m].card : m \in {n \in 1..Len(provenance) : provenance[n].page = p}}

\* C21: when parse_listing_card raises on card k of a page that returned
\* 200, extract_data does not fail: the page keeps the records of cards
\* 1..k-1 and gets none of card k or later, the limiter's handlers have been
\* called once per response and for nothing else (handle_success for this
\* page, no error handler and no backoff for the exception), and the next
\* request is for the next page.
C21_ParseErrorSkipsRest ==
    /\ [](\A i \in 1..Len(requests) :
            LET r == requests[i]
                k == FirstRaising(r.listing_cards)
                last == i = Len(requests)
            IN  (r.outcome = "200" /\ k > 0) =>
                  /\ pc # "raised"
                  /\ CardsKept(r.page) \subseteq 1..(k - 1)
                  /\ (~last \/ (pc # "parse" /\ interrupted # "parse"))
                        => CardsKept(r.page) = 1..(k - 1)
                  /\ ~last => requests[i + 1].page = r.page + 1
                  /\ (last /\ pc \in {"sleep", "get"}) => page_num = r.page + 1
                  /\ (last /\ pc = "returned" /\ interrupted = "no")
                        => r.page = args.num_pages.value
                  /\ handler_calls.handle_success
                        = Cardinality({j \in 1..Len(requests) : requests[j].outcome = "200"})
                  /\ handler_calls.handle_rate_limit
                        = Cardinality({j \in 1..Len(requests) : requests[j].outcome = "429"})
                  /\ handler_calls.handle_other_error
                        = Cardinality({j \in 1..Len(requests) :
                                          requests[j].outcome \in {"other", "exception"}}))
    /\ [][(/\ pc = "parse"
           /\ LinkRaises(response.listing_cards[card_i])
           /\ interrupted' = interrupted)
            => /\ all_data' = all_data
               /\ limiter' = limiter
               /\ handler_calls' = handler_calls
               /\ requests' = requests
               /\ pc' \in {"sleep", "returned"}
               /\ last_wait'.by \in {"sleep", "none"}
               /\ pc' = "sleep" => page_num' = page_num + 1]_vars

\* card 2 of page 1 raised; page 2 was fetched and gave its records
C21_Witness ==
    /\ pc = "returned"
    /\ interrupted = "no"
    /\ Len(requests) = 2
    /\ requests[1].outcome = "200"
    /\ requests[1].listing_cards = <<FullCard, NoHrefCard>>
    /\ requests[2].outcome = "200"
    /\ provenance = << [page |-> 1, card |-> 1], [page |-> 2, card |-> 1],
                       [page |-> 2, card |-> 2] >>
    /\ handler_calls = [handle_success |-> 2, handle_rate_limit |-> 0,
                        handle_other_error |-> 0]

====
